---- MODULE Spec2Model ----
(***************************************************************************)
(* Heap-file layer of heapfile.C: createHeapFile / destroyHeapFile, the    *)
(* HeapFile handle (constructor, destructor, getRecord), the filtered scan *)
(* view HeapFileScan and the insert view InsertFileScan.                   *)
(*                                                                         *)
(* The buffer manager, the file manager and the slotted page are           *)
(* collaborators whose code is not part of heapfile.C; they are modelled   *)
(* from their contracts (pin counts, sticky dirty bit written back when    *)
(* the file is closed, slot directory with stable slot numbers).           *)
(*                                                                         *)
(* One file name and one open handle at a time are modelled.  A page       *)
(* pointer (curPage) is modelled by the number of the page whose frame it  *)
(* addresses; the buffer pool is larger than the file, so a frame keeps    *)
(* its page after the pin is released and a stale curPage still reads that *)
(* page.  Calls that dereference a NULL curPage (deleteRecord after        *)
(* endScan) end the process and have no successor state; resetScan is      *)
(* called only after markScan (markedPageNo is uninitialised before).      *)
(***************************************************************************)
EXTENDS Integers, Sequences, FiniteSets, TLC

\* ---------------------------------------------------------------- bounds
PageCap == 2            \* records that fit on one data page
MaxPages == 2           \* data pages the file may grow to
MaxInserts == 4         \* successful insertRecord calls per file
MaxDeletes == 1         \* deleteRecord calls per file
MaxLeakedOpens == 1     \* createHeapFile calls on an existing file
MaxCalls == 4           \* calls made on one handle before it is destroyed

\* ------------------------------------------------------- program constants
NULL == 0               \* the null page pointer
SENTINEL_END == -1      \* nextPage of the tail page
RecLen == 4             \* sizeof(int): every record is one 4-byte attribute
HdrPageNo == 1          \* File::getFirstPage: the first page allocPage returns

MaxPageNo == HdrPageNo + MaxPages
PageNos == HdrPageNo..MaxPageNo
DataPageNos == (HdrPageNo + 1)..MaxPageNo
SlotNos == 0..(PageCap - 1)
Vals == {1, 2}          \* the attribute values records and filters carry
\* PAGESIZE - DPFIXED, in the model's units: the bytes PageCap records take
MaxRecLen == PageCap * RecLen

NULLRID == [pageNo |-> -1, slotNo |-> -1]
Rids == [pageNo : DataPageNos, slotNo : SlotNos]
EmptySlot == [length |-> -1, data |-> 0]
Recs == [length : {RecLen}, data : Vals]
TooLongRec == [length |-> MaxRecLen + 1, data |-> 1]

Max(a, b) == IF a >= b THEN a ELSE b
SetMin(S) == CHOOSE x \in S : \A y \in S : x <= y

\* ------------------------------------------------------------ slotted page
\* Page::init
PageInit == [slot |-> [s \in SlotNos |-> EmptySlot], nextPage |-> SENTINEL_END]

LiveSlots(pg) == {s \in SlotNos : pg.slot[s] # EmptySlot}

\* Page::firstRecord: the first used slot, or NORECORDS (rid left unset)
firstRecord(pg, pno) ==
    IF LiveSlots(pg) = {} THEN [status |-> "NORECORDS", rid |-> NULLRID]
    ELSE [status |-> "OK", rid |-> [pageNo |-> pno, slotNo |-> SetMin(LiveSlots(pg))]]

\* Page::nextRecord: the first used slot after curRid.slotNo, or ENDOFPAGE
nextRecord(pg, pno, curRid) ==
    LET later == {s \in LiveSlots(pg) : s > curRid.slotNo}
    IN IF later = {} THEN [status |-> "ENDOFPAGE", rid |-> NULLRID]
       ELSE [status |-> "OK", rid |-> [pageNo |-> pno, slotNo |-> SetMin(later)]]

\* Page::getRecord / Page::deleteRecord status: only the slot number is looked at
SlotStatus(pg, rid) ==
    IF rid.slotNo \in LiveSlots(pg) THEN "OK" ELSE "INVALIDSLOTNO"

\* Page::getRecord: the bytes of the slot; rec is left as it was (0 here) when
\* the slot holds no record
RecData(pg, rid) ==
    IF SlotStatus(pg, rid) = "OK" THEN pg.slot[rid.slotNo].data ELSE 0

\* Page::insertRecord: the first free slot, or NOSPACE
FreeSlots(pg) == SlotNos \ LiveSlots(pg)
PageInsertStatus(pg) == IF FreeSlots(pg) = {} THEN "NOSPACE" ELSE "OK"
PageInsert(pg, rec) == [pg EXCEPT !.slot[SetMin(FreeSlots(pg))] = rec]
PageDelete(pg, rid) == [pg EXCEPT !.slot[rid.slotNo] = EmptySlot]

\* ---------------------------------------------------------- buffer manager
\* A buffer state b carries the pin counts and dirty bits, and three
\* observations of the calls made on it: mod (pages written through a pin
\* that is still held), cleanUnpin (a written page was unpinned with
\* dirty=false), unpinFail (an unPinPage call returned an error), maxData
\* (the most data-page pins held at once).
RECURSIVE SumPins(_, _)
SumPins(pin, S) ==
    IF S = {} THEN 0
    ELSE LET p == CHOOSE x \in S : TRUE IN pin[p] + SumPins(pin, S \ {p})
DataPins(pin) == SumPins(pin, DataPageNos)

\* BufMgr::readPage / allocPage: one more pin on page p
Pin(b, p) ==
    LET np == [b.pin EXCEPT ![p] = @ + 1]
    IN [b EXCEPT !.pin = np, !.maxData = Max(@, DataPins(np))]

\* BufMgr::unPinPage: releases one pin and ors the dirty bit; an error when
\* the page is not pinned (or is no page at all)
UnPinOK(b, p) == p \in PageNos /\ b.pin[p] > 0
UnPin(b, p, dirty) ==
    IF UnPinOK(b, p)
    THEN [b EXCEPT !.pin[p] = @ - 1,
                   !.dirty[p] = @ \/ dirty,
                   !.cleanUnpin = @ \/ (p \in b.mod /\ ~dirty),
                   !.mod = IF b.pin[p] = 1 THEN @ \ {p} ELSE @]
    ELSE [b EXCEPT !.unpinFail = TRUE]

\* a write through a pointer to page p: remembered while p is pinned
Wrote(b, p) == IF p \in PageNos /\ b.pin[p] > 0 THEN [b EXCEPT !.mod = @ \cup {p}] ELSE b

\* --------------------------------------------------------------- the state
VARIABLES
    fileExists,     \* db: the file name exists
    openCnt,        \* db: open count of the file
    nAlloc,         \* pages allocated in the file (page numbers 1..nAlloc)
    diskHdr,        \* the header page on disk
    diskPages,      \* the data pages on disk
    headerPage,     \* the header page as the buffer pool shows it
    pages,          \* the data pages as the buffer pool shows them
    pinCnt,         \* BufMgr: pin count per page
    dirtyBit,       \* BufMgr: dirty bit per frame
    kind,           \* "none", "scan" (HeapFileScan) or "insert" (InsertFileScan)
    curPage, curPageNo, curDirtyFlag, hdrDirtyFlag, curRec,
    offset, length, type, filter, op,
    markedPageNo, markedRec,
    marked,         \* "no": markScan has not run on this handle; "fwd": it ran
                    \* with the cursor page pinned and only scanNext, resetScan
                    \* and markDirty ran since; "yes": it ran otherwise
    modified,       \* pages written through a pin the handle still holds
    insOK, delOK, delFail,  \* calls that returned OK / an error, per file
    calls,          \* calls made on the open handle
    ret             \* the last call: its name, status, rid, and buffer calls

fileVars == <<fileExists, openCnt, nAlloc, diskHdr, diskPages, headerPage, pages>>
bufVars == <<pinCnt, dirtyBit, modified>>
cursorVars == <<curPage, curPageNo, curDirtyFlag, curRec>>
predVars == <<offset, length, type, filter, op>>
markVars == <<markedPageNo, markedRec, marked>>
countVars == <<insOK, delOK, delFail>>
vars == <<fileVars, bufVars, kind, cursorVars, hdrDirtyFlag, predVars, markVars,
          countVars, calls, ret>>

\* one more call on the open handle
Call == calls < MaxCalls /\ calls' = calls + 1

NoHdr == [firstPage |-> 0, lastPage |-> 0, pageCnt |-> 0, recCnt |-> 0]
NoPages == [p \in DataPageNos |-> PageInit]
NoRet == [op |-> "none", status |-> "OK", rid |-> NULLRID, data |-> 0,
          cleanUnpin |-> FALSE, unpinFail |-> FALSE, maxData |-> 0]

\* the buffer state an operation starts from
B0 == [pin |-> pinCnt, dirty |-> dirtyBit, mod |-> modified,
       cleanUnpin |-> FALSE, unpinFail |-> FALSE, maxData |-> DataPins(pinCnt)]

Ret(name, status, rid, b) ==
    [op |-> name, status |-> status, rid |-> rid, data |-> 0,
     cleanUnpin |-> b.cleanUnpin, unpinFail |-> b.unpinFail, maxData |-> b.maxData]

Init ==
    /\ fileExists = FALSE /\ openCnt = 0 /\ nAlloc = 0
    /\ diskHdr = NoHdr /\ diskPages = NoPages
    /\ headerPage = NoHdr /\ pages = NoPages
    /\ pinCnt = [p \in PageNos |-> 0] /\ dirtyBit = [p \in PageNos |-> FALSE]
    /\ modified = {}
    /\ kind = "none"
    /\ curPage = NULL /\ curPageNo = 0 /\ curDirtyFlag = FALSE /\ curRec = NULLRID
    /\ hdrDirtyFlag = FALSE
    /\ offset = 0 /\ length = 0 /\ type = "unset" /\ filter = NULL /\ op = "unset"
    /\ markedPageNo = 0 /\ markedRec = NULLRID /\ marked = "no"
    /\ insOK = 0 /\ delOK = 0 /\ delFail = 0
    /\ calls = 0
    /\ ret = NoRet

\* ------------------------------------------------------------ file manager
\* db.closeFile: one open fewer; the last close flushes the file's frames:
\* a dirty frame is written to disk, a clean frame is dropped unwritten.
\* With a page still pinned the flush fails and writes nothing.
Flushed(b, hdr, pgs) ==
    IF \E p \in PageNos : b.pin[p] > 0
    THEN [status |-> "PAGEPINNED", dirty |-> b.dirty,
          hdr |-> hdr, dhdr |-> diskHdr, pgs |-> pgs, dpgs |-> diskPages]
    ELSE LET dhdr == IF b.dirty[HdrPageNo] THEN hdr ELSE diskHdr
             dpgs == [p \in DataPageNos |-> IF b.dirty[p] THEN pgs[p] ELSE diskPages[p]]
         IN [status |-> "OK", dirty |-> [p \in PageNos |-> FALSE],
             hdr |-> dhdr, dhdr |-> dhdr, pgs |-> dpgs, dpgs |-> dpgs]

closeFile(b, hdr, pgs) ==
    IF openCnt = 1 THEN Flushed(b, hdr, pgs)
    ELSE [status |-> "OK", dirty |-> b.dirty,
          hdr |-> hdr, dhdr |-> diskHdr, pgs |-> pgs, dpgs |-> diskPages]

\* ------------------------------------------------------ createHeapFile
createHeapFile ==
    /\ kind = "none"
    /\ IF fileExists
       THEN \* db.openFile succeeds: FILEEXISTS is returned with the file left open
            /\ openCnt < MaxLeakedOpens
            /\ openCnt' = openCnt + 1
            /\ ret' = Ret("createHeapFile", "FILEEXISTS", NULLRID, B0)
            /\ UNCHANGED <<fileExists, nAlloc, diskHdr, diskPages, headerPage, pages,
                           bufVars, countVars>>
       ELSE LET hdrPageNo == HdrPageNo
                newPageNo == HdrPageNo + 1
                b1 == Wrote(Pin(B0, hdrPageNo), hdrPageNo)
                b2 == Wrote(Pin(b1, newPageNo), newPageNo)
                hdr == [firstPage |-> newPageNo, lastPage |-> newPageNo,
                        pageCnt |-> 1, recCnt |-> 0]
                b3 == UnPin(b2, newPageNo, TRUE)
                b4 == UnPin(b3, hdrPageNo, TRUE)
                f == Flushed(b4, hdr, NoPages)
            IN /\ fileExists' = TRUE
               /\ openCnt' = 0
               /\ nAlloc' = newPageNo
               /\ headerPage' = f.hdr /\ diskHdr' = f.dhdr
               /\ pages' = f.pgs /\ diskPages' = f.dpgs
               /\ pinCnt' = b4.pin /\ dirtyBit' = f.dirty /\ modified' = b4.mod
               /\ insOK' = 0 /\ delOK' = 0 /\ delFail' = 0
               /\ ret' = Ret("createHeapFile", "OK", NULLRID, b4)
    /\ UNCHANGED <<kind, cursorVars, hdrDirtyFlag, predVars, markVars, calls>>

\* destroyHeapFile: db.destroyFile refuses a file that is open
destroyHeapFile ==
    /\ kind = "none" /\ fileExists
    /\ IF openCnt > 0
       THEN /\ ret' = Ret("destroyHeapFile", "FILEOPEN", NULLRID, B0)
            /\ UNCHANGED <<fileVars, countVars>>
       ELSE /\ fileExists' = FALSE /\ nAlloc' = 0
            /\ diskHdr' = NoHdr /\ diskPages' = NoPages
            /\ headerPage' = NoHdr /\ pages' = NoPages
            /\ insOK' = 0 /\ delOK' = 0 /\ delFail' = 0
            /\ ret' = Ret("destroyHeapFile", "OK", NULLRID, B0)
            /\ UNCHANGED openCnt
    /\ UNCHANGED <<bufVars, kind, cursorVars, hdrDirtyFlag, predVars, markVars, calls>>

\* ------------------------------------------------------------- the handle
\* HeapFile::HeapFile: opens the file, pins the header page and the FIRST
\* data page, which becomes the cursor page.
HeapFile(k) ==
    /\ kind = "none" /\ fileExists
    /\ LET b1 == Pin(B0, HdrPageNo)
           b2 == Pin(b1, headerPage.firstPage)
       IN /\ openCnt' = openCnt + 1
          /\ pinCnt' = b2.pin /\ dirtyBit' = b2.dirty /\ modified' = b2.mod
          /\ curPage' = headerPage.firstPage
          /\ curPageNo' = headerPage.firstPage
          /\ curDirtyFlag' = FALSE /\ hdrDirtyFlag' = FALSE
          /\ curRec' = NULLRID
          /\ ret' = Ret(k, "OK", NULLRID, b2)
    /\ kind' = k
    /\ calls' = 0
    /\ UNCHANGED <<fileExists, nAlloc, diskHdr, diskPages, headerPage, pages,
                   countVars>>

\* HeapFileScan::HeapFileScan: the base constructor, then filter = NULL
HeapFileScan ==
    /\ HeapFile("scan")
    /\ filter' = NULL
    /\ UNCHANGED <<offset, length, type, op, markVars>>

\* InsertFileScan::InsertFileScan: the base constructor only
InsertFileScan ==
    /\ HeapFile("insert")
    /\ UNCHANGED <<predVars, markVars>>

\* the cursor an operation starts from, with the buffer state it acts on
C0 == [curPage |-> curPage, curPageNo |-> curPageNo, curDirtyFlag |-> curDirtyFlag,
       curRec |-> curRec, status |-> "OK", b |-> B0]

UnPinStatus(b, p) == IF UnPinOK(b, p) THEN "OK" ELSE "HASHNOTFOUND"

\* endScan with the unPinPage call left out
endScanNoUnpin(c) ==
    IF c.curPage # NULL
    THEN [c EXCEPT !.status = "OK",
                   !.curPage = NULL, !.curPageNo = 0, !.curDirtyFlag = FALSE]
    ELSE [c EXCEPT !.status = "OK"]

\* endScan that unpins the cursor page and keeps the cursor
endScanKeepCursor(c) ==
    IF c.curPage # NULL
    THEN [c EXCEPT !.b = UnPin(c.b, c.curPageNo, c.curDirtyFlag),
                   !.status = UnPinStatus(c.b, c.curPageNo)]
    ELSE [c EXCEPT !.status = "OK"]

\* HeapFileScan::endScan
endScanOp(c) ==
    IF c.curPage # NULL
    THEN [c EXCEPT !.b = UnPin(c.b, c.curPageNo, c.curDirtyFlag),
                   !.status = UnPinStatus(c.b, c.curPageNo),
                   !.curPage = NULL, !.curPageNo = 0, !.curDirtyFlag = FALSE]
    ELSE [c EXCEPT !.status = "OK"]

\* ~InsertFileScan with the cursor page unpinned clean
InsertFileScanDtorClean(c) ==
    IF c.curPage # NULL
    THEN [c EXCEPT !.b = UnPin(c.b, c.curPageNo, FALSE),
                   !.curPage = NULL, !.curPageNo = 0]
    ELSE c

\* InsertFileScan::~InsertFileScan: the cursor page is unpinned dirty
InsertFileScanDtorOp(c) ==
    IF c.curPage # NULL
    THEN [c EXCEPT !.b = UnPin(c.b, c.curPageNo, TRUE),
                   !.curPage = NULL, !.curPageNo = 0]
    ELSE c

\* HeapFile::~HeapFile up to the header unpin
HeapFileDtorOp(c) ==
    LET c1 == IF c.curPage # NULL
              THEN [c EXCEPT !.b = UnPin(c.b, c.curPageNo, c.curDirtyFlag),
                             !.curPage = NULL, !.curPageNo = 0,
                             !.curDirtyFlag = FALSE]
              ELSE c
    IN [c1 EXCEPT !.b = UnPin(c1.b, HdrPageNo, hdrDirtyFlag)]

\* the destructor of the open view, then of the base class, then db.closeFile
Destroy(c) ==
    LET c1 == HeapFileDtorOp(c)
        f == closeFile(c1.b, headerPage, pages)
    IN /\ openCnt' = openCnt - 1
       /\ headerPage' = f.hdr /\ diskHdr' = f.dhdr
       /\ pages' = f.pgs /\ diskPages' = f.dpgs
       /\ pinCnt' = c1.b.pin /\ dirtyBit' = f.dirty /\ modified' = c1.b.mod
       /\ kind' = "none"
       /\ calls' = 0
       /\ curPage' = NULL /\ curPageNo' = 0 /\ curDirtyFlag' = FALSE
       /\ curRec' = NULLRID /\ hdrDirtyFlag' = FALSE
       /\ offset' = 0 /\ length' = 0 /\ type' = "unset" /\ filter' = NULL
       /\ op' = "unset"
       /\ markedPageNo' = 0 /\ markedRec' = NULLRID /\ marked' = "no"
       /\ ret' = Ret("close", f.status, NULLRID, c1.b)
       /\ UNCHANGED <<fileExists, nAlloc, countVars>>

HeapFileScanDtor == kind = "scan" /\ Destroy(endScanOp(C0))
InsertFileScanDtor == kind = "insert" /\ Destroy(InsertFileScanDtorOp(C0))

\* BufMgr::readPage succeeds on the pages of the file; on any other page
\* number (-1, 0) it returns an error and leaves the page pointer as it was
ReadOK(p) == p \in HdrPageNo..nAlloc

\* getRecord that pins the page of rid without releasing the cursor page
getRecordNoUnpin(c, rid) ==
    LET c1 == IF rid.pageNo = c.curPageNo
              THEN c
              ELSE [c EXCEPT !.curPageNo = rid.pageNo,
                             !.b = Pin(c.b, rid.pageNo),
                             !.curPage = rid.pageNo,
                             !.curDirtyFlag = FALSE]
    IN [c1 EXCEPT !.curRec = rid, !.status = "OK"]

\* HeapFile::getRecord(rid, rec): the status of Page::getRecord is dropped
getRecordOp(c, rid) ==
    LET c1 == IF rid.pageNo = c.curPageNo
              THEN c
              ELSE IF c.curPage = NULL
              THEN [c EXCEPT !.curPageNo = rid.pageNo,
                             !.b = Pin(c.b, rid.pageNo),
                             !.curPage = rid.pageNo,
                             !.curDirtyFlag = FALSE]
              ELSE [c EXCEPT !.b = Pin(UnPin(c.b, c.curPageNo, c.curDirtyFlag),
                                       rid.pageNo),
                             !.curPage = rid.pageNo,
                             !.curPageNo = rid.pageNo,
                             !.curDirtyFlag = FALSE]
    IN [c1 EXCEPT !.curRec = rid, !.status = "OK"]

SetCursor(c) ==
    /\ curPage' = c.curPage /\ curPageNo' = c.curPageNo
    /\ curDirtyFlag' = c.curDirtyFlag /\ curRec' = c.curRec
    /\ pinCnt' = c.b.pin /\ dirtyBit' = c.b.dirty /\ modified' = c.b.mod

\* a call other than scanNext, resetScan and markDirty ends the forward scan
\* that followed markScan
MarkBroken ==
    /\ marked' = IF marked = "fwd" THEN "yes" ELSE marked
    /\ UNCHANGED <<markedPageNo, markedRec>>

\* rid names a slot of a data page of the file; with rid.pageNo = curPageNo
\* the page pointer is dereferenced, so it is not NULL
getRecord ==
    /\ kind # "none"
    /\ Call
    /\ \E rid \in Rids :
        /\ rid.pageNo <= nAlloc
        /\ rid.pageNo = curPageNo => curPage # NULL
        /\ LET c == getRecordOp(C0, rid)
           IN /\ SetCursor(c)
              /\ ret' = [Ret("getRecord", c.status, rid, c.b)
                          EXCEPT !.data = RecData(pages[c.curPage], rid)]
    /\ MarkBroken
    /\ UNCHANGED <<fileVars, kind, hdrDirtyFlag, predVars, countVars>>

\* ------------------------------------------------------------ insert view
\* InsertFileScan::insertRecord
insertRecord ==
    /\ kind = "insert"
    /\ Call
    /\ \E rec \in Recs \cup {TooLongRec} :
        IF rec.length > MaxRecLen
        THEN /\ ret' = Ret("insertRecord", "INVALIDRECLEN", NULLRID, B0)
             /\ UNCHANGED <<fileVars, bufVars, cursorVars, hdrDirtyFlag, countVars>>
        ELSE
          LET c1 == IF curPage = NULL
                    THEN [C0 EXCEPT !.curPageNo = headerPage.lastPage,
                                    !.b = Pin(C0.b, headerPage.lastPage),
                                    !.curPage = headerPage.lastPage,
                                    !.curDirtyFlag = FALSE]
                    ELSE C0
              status == PageInsertStatus(pages[c1.curPage])
          IN /\ insOK < MaxInserts
             /\ IF status = "NOSPACE"
                THEN LET newPageNo == nAlloc + 1
                         lastPage == headerPage.lastPage
                         \* unpin the page that had no room
                         b1 == UnPin(c1.b, c1.curPageNo, c1.curDirtyFlag)
                         \* allocPage pins the new page, init writes it
                         b2 == Wrote(Pin(b1, newPageNo), newPageNo)
                         \* the old tail is pinned and linked to the new page
                         b3 == Wrote(Pin(b2, lastPage), lastPage)
                         \* and unpinned with curDirtyFlag, which is false here
                         b4 == UnPin(b3, lastPage, FALSE)
                         b5 == UnPin(b4, newPageNo, TRUE)
                         b6 == Wrote(Pin(b5, newPageNo), newPageNo)
                         rid == [pageNo |-> newPageNo, slotNo |-> 0]
                     IN /\ nAlloc < MaxPageNo
                        /\ nAlloc' = newPageNo
                        /\ pages' = [pages EXCEPT
                                       ![lastPage].nextPage = newPageNo,
                                       ![newPageNo] = PageInsert(PageInit, rec)]
                        /\ headerPage' = [headerPage EXCEPT
                                            !.lastPage = newPageNo,
                                            !.pageCnt = @ + 1,
                                            !.recCnt = @ + 1]
                        /\ curPage' = newPageNo /\ curPageNo' = newPageNo
                        /\ curRec' = c1.curRec
                        /\ pinCnt' = b6.pin /\ dirtyBit' = b6.dirty
                        /\ modified' = b6.mod
                        /\ ret' = [Ret("insertRecord", "OK", rid, b6)
                                    EXCEPT !.data = rec.data]
                ELSE LET pg == pages[c1.curPage]
                         rid == [pageNo |-> c1.curPage,
                                 slotNo |-> SetMin(FreeSlots(pg))]
                         b1 == Wrote(c1.b, c1.curPage)
                     IN /\ pages' = [pages EXCEPT ![c1.curPage] = PageInsert(pg, rec)]
                        /\ headerPage' = [headerPage EXCEPT !.recCnt = @ + 1]
                        /\ curPage' = c1.curPage /\ curPageNo' = c1.curPageNo
                        /\ curRec' = c1.curRec
                        /\ pinCnt' = b1.pin /\ dirtyBit' = b1.dirty
                        /\ modified' = b1.mod
                        /\ ret' = [Ret("insertRecord", "OK", rid, b1)
                                    EXCEPT !.data = rec.data]
                        /\ UNCHANGED nAlloc
             /\ curDirtyFlag' = TRUE
             /\ hdrDirtyFlag' = TRUE
             /\ insOK' = insOK + 1
             /\ UNCHANGED <<fileExists, openCnt, diskHdr, diskPages, delOK, delFail>>
    /\ UNCHANGED <<kind, predVars, markVars>>


\* ------------------------------------------------------------- scan view
Ops == {"LT", "LTE", "EQ", "GTE", "GT", "NE"}
Types == {"STRING", "INTEGER", "FLOAT"}

\* A 32-bit value v is handled as its two 16-bit halves, v = hi * 2^16 + lo
\* with lo in 0..2^16-1, so that a difference of two ints, which needs 33
\* bits, is computed without loss.
Half == 2^16
ToPair(v) == [hi |-> v \div Half, lo |-> v % Half]
PairSub(a, b) ==
    LET lo == a.lo - b.lo
        borrow == IF lo < 0 THEN 1 ELSE 0
    IN [hi |-> a.hi - b.hi - borrow, lo |-> lo + borrow * Half]
PairNeg(d) ==
    IF d.lo = 0 THEN [hi |-> -d.hi, lo |-> 0]
    ELSE [hi |-> -d.hi - 1, lo |-> Half - d.lo]
PairSign(d) == IF d.hi < 0 THEN -1 ELSE IF d.hi = 0 /\ d.lo = 0 THEN 0 ELSE 1

\* the value fits a 32-bit signed int; the value an overflowing int
\* subtraction leaves in a two's complement register
InInt32(d) == d.hi >= -(Half \div 2) /\ d.hi < Half \div 2
Wrap32(d) == [d EXCEPT !.hi = ((d.hi + Half \div 2) % Half) - Half \div 2]

\* iattr - ifltr in int arithmetic.  Signed overflow is undefined: the build
\* either wraps the result to 32 bits or (exact) keeps the true difference.
IntSub(a, f, exact) ==
    LET d == PairSub(ToPair(a), ToPair(f))
    IN IF InInt32(d) \/ exact THEN d ELSE Wrap32(d)

\* the conversion int -> float of "diff = iattr - ifltr": the nearest value
\* with a 24-bit significand, ties to even
RECURSIVE Quantum(_, _)
Quantum(h, q) == IF h < 256 * q THEN q ELSE Quantum(h, 2 * q)
RoundPair(m) ==
    LET q == Quantum(m.hi, 1)
        r == m.lo % q
        lo0 == m.lo - r
        up == 2 * r > q \/ (2 * r = q /\ (lo0 \div q) % 2 = 1)
        lo1 == IF up THEN lo0 + q ELSE lo0
    IN IF lo1 = Half THEN [hi |-> m.hi + 1, lo |-> 0] ELSE [hi |-> m.hi, lo |-> lo1]
ToFloat(d) == IF d.hi < 0 THEN PairNeg(RoundPair(PairNeg(d))) ELSE RoundPair(d)

\* the four bytes of an int attribute in memory, low byte first
Bytes(v) ==
    LET p == ToPair(v)
        h == p.hi % Half
    IN <<p.lo % 256, p.lo \div 256, h % 256, h \div 256>>

\* strncmp: compares at most n bytes as unsigned bytes and stops at the first
\* zero byte
RECURSIVE strncmp(_, _, _, _)
strncmp(a, f, i, n) ==
    IF i > n \/ i > Len(a) \/ i > Len(f) THEN 0
    ELSE IF a[i] # f[i] THEN a[i] - f[i]
    ELSE IF a[i] = 0 THEN 0
    ELSE strncmp(a, f, i + 1, n)

\* the parameters startScan is called with
ScanParams ==
    {[offset |-> 0, length |-> RecLen, type |-> "INTEGER", filter |-> NULL, op |-> "EQ"],
     [offset |-> 0, length |-> RecLen, type |-> "INTEGER", filter |-> 2, op |-> "EQ"],
     [offset |-> 0, length |-> 1, type |-> "INTEGER", filter |-> 1, op |-> "EQ"],
     [offset |-> -1, length |-> RecLen, type |-> "INTEGER", filter |-> 1, op |-> "EQ"],
     [offset |-> 0, length |-> RecLen, type |-> "INTEGER", filter |-> 1, op |-> "none"]}

\* every combination of arguments startScan distinguishes
AllScanParams ==
    [offset : {-1, 0}, length : {0, 1, RecLen}, type : Types \cup {"other"},
     filter : {NULL, 1}, op : Ops \cup {"none"}]

\* startScan without the check of a FLOAT attribute's length
startScanStatusNoFloat(offset_, length_, type_, filter_, op_) ==
    IF filter_ = NULL THEN "OK"
    ELSE IF \/ (offset_ < 0 \/ length_ < 1)
            \/ type_ \notin Types
            \/ (type_ = "INTEGER" /\ length_ # RecLen)
            \/ op_ \notin Ops
    THEN "BADSCANPARM"
    ELSE "OK"

\* HeapFileScan::startScan
startScanStatus(offset_, length_, type_, filter_, op_) ==
    IF filter_ = NULL THEN "OK"
    ELSE IF \/ (offset_ < 0 \/ length_ < 1)
            \/ type_ \notin Types
            \/ (type_ = "INTEGER" /\ length_ # RecLen)
            \/ (type_ = "FLOAT" /\ length_ # RecLen)
            \/ op_ \notin Ops
    THEN "BADSCANPARM"
    ELSE "OK"

startScanQ(q) ==
    /\ kind = "scan"
    /\ Call
    /\ LET status == startScanStatus(q.offset, q.length, q.type, q.filter, q.op)
       IN /\ IF q.filter = NULL
             THEN filter' = NULL /\ UNCHANGED <<offset, length, type, op>>
             ELSE IF status = "OK"
             THEN /\ offset' = q.offset /\ length' = q.length /\ type' = q.type
                  /\ filter' = q.filter /\ op' = q.op
             ELSE UNCHANGED predVars
          /\ ret' = Ret("startScan", status, NULLRID, B0)
    /\ MarkBroken
    /\ UNCHANGED <<fileVars, bufVars, kind, cursorVars, hdrDirtyFlag, countVars>>

\* startScan with the arguments the scans of Spec use
startScan == \E q \in ScanParams : startScanQ(q)

\* startScan with any arguments
startScanAll == \E q \in AllScanParams : startScanQ(q)

\* the comparison of matchRec: diff = attribute - filter, then op on diff
Compare(diff, o) ==
    CASE o = "LT" -> diff < 0
      [] o = "LTE" -> diff <= 0
      [] o = "EQ" -> diff = 0
      [] o = "GTE" -> diff >= 0
      [] o = "GT" -> diff > 0
      [] o = "NE" -> diff # 0
      [] OTHER -> FALSE

\* HeapFileScan::matchRec: float diff, then the switch on op.  filter holds
\* the four bytes the filter pointer addresses, as an int (never 0, which is
\* NULL: no filter).  FLOAT attributes are small whole numbers here.
matchRecOv(rec, exact) ==
    IF filter = NULL THEN TRUE
    ELSE IF (offset + length - 1) >= rec.length THEN FALSE
    ELSE LET diff == CASE type = "INTEGER" ->
                              PairSign(ToFloat(IntSub(rec.data, filter, exact)))
                       [] type = "FLOAT" -> rec.data - filter
                       [] type = "STRING" ->
                              strncmp(SubSeq(Bytes(rec.data), offset + 1, offset + length),
                                      Bytes(filter), 1, length)
                       [] OTHER -> 0
         IN Compare(diff, op)

\* matchRec as scanNext calls it
matchRec(rec) == matchRecOv(rec, FALSE)

\* the 32-bit attribute and filter values matchRec is applied to: the ends
\* of the int range, values around zero, a value no float holds exactly, a
\* byte above 127, and byte strings that differ after a zero byte
Int32Max == 2147483647
Int32Min == -Int32Max - 1
MatchVals ==
    {Int32Min, -1, 1, 2, 200, 2^24 + 1, Int32Max, 97 + 98 * Half, 97 + 99 * Half}
MatchRecs == [length : {RecLen}, data : MatchVals \cup {0}]
MatchScanParams ==
    {[offset |-> q[1], length |-> q[2], type |-> q[3], filter |-> f, op |-> o] :
        q \in {<<0, RecLen, "INTEGER">>, <<0, RecLen, "STRING">>, <<1, 2, "STRING">>},
        f \in MatchVals, o \in Ops}

\* startScan with the predicates matchRec is examined under
startScanMatch == \E q \in MatchScanParams : startScanQ(q)

\* one call of matchRec(rec) on a scan with a predicate stored
matchRecCall ==
    /\ kind = "scan" /\ filter # NULL
    /\ \E rec \in MatchRecs, exact \in BOOLEAN :
          ret' = [Ret("matchRec", IF matchRecOv(rec, exact) THEN "TRUE" ELSE "FALSE",
                      NULLRID, B0)
                  EXCEPT !.data = rec.data]
    /\ UNCHANGED <<fileVars, bufVars, kind, cursorVars, hdrDirtyFlag, predVars,
                   markVars, countVars, calls>>

\* the inner loop of scanNext on the page curPage addresses: the first record
\* from rid on that matches, or none.  When Page::getRecord fails (rid was
\* never set) rec is uninitialised and matchRec reads garbage: gm.
RECURSIVE NextMatch(_, _, _, _)
NextMatch(pg, pno, rid, gm) ==
    LET m == IF SlotStatus(pg, rid) = "OK" THEN matchRec(pg.slot[rid.slotNo])
             ELSE IF filter = NULL THEN TRUE ELSE gm
        nr == nextRecord(pg, pno, rid)
    IN IF m THEN [status |-> "OK", rid |-> rid]
       ELSE IF nr.status = "OK" THEN NextMatch(pg, pno, nr.rid, gm)
       ELSE nr

\* the outer loop of scanNext: while (pageStatus == OK && nextPageNo != -1)
RECURSIVE scanLoop(_, _, _, _, _)
scanLoop(c, recStatus, nextRid, nextPageNo, gm) ==
    IF nextPageNo = SENTINEL_END
    THEN [c EXCEPT !.curRec = NULLRID, !.status = "FILEEOF"]
    ELSE LET pg == pages[c.curPage]
             found == IF recStatus = "OK" THEN NextMatch(pg, c.curPage, nextRid, gm)
                      ELSE [status |-> recStatus, rid |-> NULLRID]
         IN IF found.status = "OK"
            THEN [c EXCEPT !.curRec = found.rid, !.status = "OK"]
            ELSE \* advance: unpin, then read nextPageNo whatever it is
                 LET np == pg.nextPage
                     b1 == UnPin(c.b, c.curPageNo, c.curDirtyFlag)
                     c1 == [c EXCEPT !.b = IF ReadOK(np) THEN Pin(b1, np) ELSE b1,
                                     !.curDirtyFlag = FALSE,
                                     !.curPageNo = np,
                                     !.curPage = IF ReadOK(np) THEN np ELSE @]
                     fr == firstRecord(pages[c1.curPage], c1.curPage)
                 IN scanLoop(c1, fr.status, fr.rid, np, gm)

\* HeapFileScan::scanNext.  With the cursor absent the status of firstRecord
\* is dropped: on an empty first page nextRid is read uninitialised (g).
scanNextOp(c, g, gm) ==
    IF c.curPage = NULL
    THEN LET fp == headerPage.firstPage
             c1 == [c EXCEPT !.curPageNo = fp,
                             !.b = Pin(c.b, fp),
                             !.curPage = fp,
                             !.curDirtyFlag = FALSE]
             fr == firstRecord(pages[fp], fp)
         IN scanLoop(c1, "OK", IF fr.status = "OK" THEN fr.rid ELSE g, 0, gm)
    ELSE LET nr == nextRecord(pages[c.curPage], c.curPage, c.curRec)
         IN scanLoop(c, nr.status, nr.rid, 0, gm)

\* the values an uninitialised RID may hold
GarbageRids == Rids \cup {NULLRID}

\* scanNext reads nextRid before anything has set it
NextRidUnset ==
    curPage = NULL /\ LiveSlots(pages[headerPage.firstPage]) = {}

scanNext ==
    /\ kind = "scan"
    /\ Call
    /\ \E g \in (IF NextRidUnset THEN GarbageRids ELSE {NULLRID}),
          gm \in (IF NextRidUnset /\ filter # NULL THEN BOOLEAN ELSE {FALSE}) :
        LET c == scanNextOp(C0, g, gm)
        IN /\ SetCursor(c)
           /\ ret' = Ret("scanNext", c.status, NULLRID, c.b)
    /\ UNCHANGED <<fileVars, kind, hdrDirtyFlag, predVars, markVars, countVars>>

endScan ==
    /\ kind = "scan"
    /\ Call
    /\ LET c == endScanOp(C0)
       IN /\ SetCursor(c)
          /\ ret' = Ret("endScan", c.status, NULLRID, c.b)
    /\ MarkBroken
    /\ UNCHANGED <<fileVars, kind, hdrDirtyFlag, predVars, countVars>>

\* the cursor page is pinned and curPage, curPageNo agree
CursorPinned == curPage # NULL /\ curPage = curPageNo /\ pinCnt[curPage] > 0

\* HeapFileScan::markScan
markScan ==
    /\ kind = "scan"
    /\ Call
    /\ markedPageNo' = curPageNo
    /\ markedRec' = curRec
    /\ marked' = IF CursorPinned THEN "fwd" ELSE "yes"
    /\ ret' = Ret("markScan", "OK", NULLRID, B0)
    /\ UNCHANGED <<fileVars, bufVars, kind, cursorVars, hdrDirtyFlag, predVars,
                   countVars>>

\* HeapFileScan::resetScan
resetScanOp(c) ==
    IF markedPageNo # c.curPageNo
    THEN IF c.curPage # NULL /\ ~UnPinOK(c.b, c.curPageNo)
         THEN [c EXCEPT !.b = UnPin(c.b, c.curPageNo, c.curDirtyFlag),
                        !.status = "HASHNOTFOUND"]
         ELSE LET b1 == IF c.curPage # NULL
                        THEN UnPin(c.b, c.curPageNo, c.curDirtyFlag)
                        ELSE c.b
                  c1 == [c EXCEPT !.b = b1, !.curPageNo = markedPageNo,
                                  !.curRec = markedRec]
              IN IF ReadOK(markedPageNo)
                 THEN [c1 EXCEPT !.b = Pin(b1, markedPageNo),
                                 !.curPage = markedPageNo,
                                 !.curDirtyFlag = FALSE,
                                 !.status = "OK"]
                 ELSE [c1 EXCEPT !.status = "BADPAGENO"]
    ELSE [c EXCEPT !.curRec = markedRec, !.status = "OK"]

resetScan ==
    /\ kind = "scan"
    /\ Call
    /\ marked # "no"
    /\ LET c == resetScanOp(C0)
       IN /\ SetCursor(c)
          /\ ret' = Ret("resetScan", c.status, NULLRID, c.b)
    /\ UNCHANGED <<fileVars, kind, hdrDirtyFlag, predVars, markVars, countVars>>

\* HeapFileScan::deleteRecord: recCnt is decremented whatever the page says
deleteRecord ==
    /\ kind = "scan"
    /\ Call
    /\ curPage # NULL
    /\ LET status == SlotStatus(pages[curPage], curRec)
           b1 == IF status = "OK" THEN Wrote(B0, curPage) ELSE B0
       IN /\ delOK + delFail < MaxDeletes
          /\ pages' = IF status = "OK"
                      THEN [pages EXCEPT ![curPage] = PageDelete(@, curRec)]
                      ELSE pages
          /\ curDirtyFlag' = TRUE
          /\ headerPage' = [headerPage EXCEPT !.recCnt = @ - 1]
          /\ hdrDirtyFlag' = TRUE
          /\ delOK' = IF status = "OK" THEN delOK + 1 ELSE delOK
          /\ delFail' = IF status = "OK" THEN delFail ELSE delFail + 1
          /\ pinCnt' = b1.pin /\ dirtyBit' = b1.dirty /\ modified' = b1.mod
          /\ ret' = Ret("deleteRecord", status, NULLRID, b1)
    /\ MarkBroken
    /\ UNCHANGED <<fileExists, openCnt, nAlloc, diskHdr, diskPages, kind,
                   curPage, curPageNo, curRec, predVars, insOK>>

\* HeapFileScan::markDirty
markDirty ==
    /\ kind = "scan"
    /\ Call
    /\ curDirtyFlag' = TRUE
    /\ LET b1 == IF curPage # NULL THEN Wrote(B0, curPage) ELSE B0
       IN /\ pinCnt' = b1.pin /\ dirtyBit' = b1.dirty /\ modified' = b1.mod
          /\ ret' = Ret("markDirty", "OK", NULLRID, b1)
    /\ UNCHANGED <<fileVars, kind, curPage, curPageNo, curRec, hdrDirtyFlag,
                   predVars, markVars, countVars>>

\* createHeapFile on a name that does not exist yet
createNew == ~fileExists /\ createHeapFile

\* Every operation of the layer, each file name created once.
Next ==
    \/ createNew
    \/ destroyHeapFile
    \/ HeapFileScan
    \/ InsertFileScan
    \/ HeapFileScanDtor
    \/ InsertFileScanDtor
    \/ getRecord
    \/ insertRecord
    \/ startScan
    \/ scanNext
    \/ endScan
    \/ markScan
    \/ resetScan
    \/ deleteRecord
    \/ markDirty

Spec == Init /\ [][Next]_vars

\* createHeapFile on any name, existing or not, with the insert view.
NextCreate ==
    \/ createHeapFile
    \/ destroyHeapFile
    \/ InsertFileScan
    \/ InsertFileScanDtor
    \/ insertRecord

SpecCreate == Init /\ [][NextCreate]_vars

\* The scan view with every combination of startScan arguments.
NextStart ==
    \/ createNew
    \/ HeapFileScan
    \/ startScanAll
    \/ HeapFileScanDtor

SpecStart == Init /\ [][NextStart]_vars

\* matchRec on 32-bit attributes and filters of every kind.
NextMatchRec ==
    \/ createNew
    \/ HeapFileScan
    \/ startScanMatch
    \/ matchRecCall
    \/ HeapFileScanDtor

SpecMatch == Init /\ [][NextMatchRec]_vars

\* ---------------------------------------------------------- the page chain
\* the pages reached from p by nextPage links, at most n of them
RECURSIVE ChainFrom(_, _, _)
ChainFrom(pgs, p, n) ==
    IF n = 0 \/ p \notin DataPageNos THEN <<>>
    ELSE <<p>> \o ChainFrom(pgs, pgs[p].nextPage, n - 1)

Chain == ChainFrom(pages, headerPage.firstPage, MaxPages + 1)

RECURSIVE LiveRidsOf(_)
LiveRidsOf(ch) ==
    IF ch = <<>> THEN {}
    ELSE {[pageNo |-> Head(ch), slotNo |-> s] : s \in LiveSlots(pages[Head(ch)])}
         \cup LiveRidsOf(Tail(ch))

LiveRids == LiveRidsOf(Chain)

\* the rids an unfiltered scan returns from cursor c until its first FILEEOF
RECURSIVE ScanAll(_, _, _)
ScanAll(c, g, n) ==
    LET r == scanNextOp(c, g, FALSE)
    IN IF n = 0 \/ r.status # "OK" THEN <<>>
       ELSE <<r.curRec>> \o ScanAll(r, g, n - 1)

\* a scan at its start: the cursor is absent, or pinned on the first page
\* before its first record
ScanStart ==
    /\ kind = "scan"
    /\ \/ curPage = NULL
       \/ CursorPinned /\ curPageNo = headerPage.firstPage /\ curRec = NULLRID

Result(c) == [status |-> c.status, rid |-> c.curRec]

\* the cursor as markScan saw it
MarkCursor == [C0 EXCEPT !.curPage = markedPageNo, !.curPageNo = markedPageNo,
                         !.curRec = markedRec]

\* ------------------------------------------------------------- the claims

\* C1: recCnt equals the inserts that returned OK minus the deletes that
\* returned OK, and equals the number of live slots over the page chain.
C1_RecCnt ==
    fileExists =>
        /\ headerPage.recCnt = insOK - delOK
        /\ headerPage.recCnt = Cardinality(LiveRids)

\* C2: from firstPage the nextPage links visit exactly pageCnt distinct data
\* pages, the last of them is lastPage, and its nextPage is the end sentinel.
C2_Chain ==
    fileExists =>
        /\ Len(Chain) = headerPage.pageCnt
        /\ \A i, j \in 1..Len(Chain) : i # j => Chain[i] # Chain[j]
        /\ Len(Chain) >= 1
        /\ Chain[Len(Chain)] = headerPage.lastPage
        /\ pages[headerPage.lastPage].nextPage = SENTINEL_END

\* C3: a rid scanNext returns with OK names a live record that satisfies the
\* predicate; an unfiltered scan run from its start to FILEEOF returns every
\* live record exactly once.
C3_ScanSound ==
    /\ (ret.op = "scanNext" /\ ret.status = "OK") =>
          /\ curRec \in LiveRids
          /\ matchRec(pages[curRec.pageNo].slot[curRec.slotNo])
    /\ (ScanStart /\ filter = NULL) =>
          \A g \in (IF NextRidUnset THEN GarbageRids ELSE {NULLRID}) :
              LET seen == ScanAll(C0, g, MaxPages * PageCap + 1)
              IN /\ {seen[i] : i \in 1..Len(seen)} = LiveRids
                 /\ Len(seen) = Cardinality(LiveRids)

\* C4: after markScan, forward scanNext calls and resetScan, resetScan has
\* returned OK and the next scanNext returns what it would have returned
\* right after the mark.
C4_MarkReset ==
    (ret.op = "resetScan" /\ marked = "fwd") =>
        /\ ret.status = "OK"
        /\ Result(scanNextOp(C0, NULLRID, FALSE))
             = Result(scanNextOp(MarkCursor, NULLRID, FALSE))

\* C5: getRecord(rid) returns the page's slot status, INVALIDSLOTNO for a slot
\* that does not exist or was deleted, and sets curRec to rid only on success.
C5_GetRecordStatus ==
    /\ [](ret.op = "getRecord" =>
            ret.status = SlotStatus(pages[ret.rid.pageNo], ret.rid))
    /\ [][(/\ ret'.op = "getRecord" /\ calls' = calls + 1
           /\ SlotStatus(pages[ret'.rid.pageNo], ret'.rid) # "OK")
          => curRec' = curRec]_vars

\* C6: a successful insertRecord places the record on the page that is
\* lastPage when the call returns, and allocates a page only when the tail
\* page has no room for the record.
C6_InsertAtTail ==
    /\ []((ret.op = "insertRecord" /\ ret.status = "OK") =>
            ret.rid.pageNo = headerPage.lastPage)
    /\ [][(ret'.op = "insertRecord" /\ calls' = calls + 1 /\ nAlloc' > nAlloc)
          => PageInsertStatus(pages[headerPage.lastPage]) = "NOSPACE"]_vars

\* C7: a data page written through a pin is unpinned with dirty=true.
C7_DirtyUnpin == ~ret.cleanUnpin

\* C8: between the calls of an open handle the header page holds exactly one
\* pin and the data pages at most one; inside a call at most two data pages
\* are pinned at once.
C8_Pins ==
    /\ kind # "none" => pinCnt[HdrPageNo] = 1 /\ DataPins(pinCnt) <= 1
    /\ ret.maxData <= 2

\* a page was linked by insertRecord, with the new and the old tail pinned
C8_Witness ==
    /\ ret.op = "insertRecord" /\ ret.maxData = 2
    /\ pinCnt[HdrPageNo] = 1 /\ DataPins(pinCnt) = 1

\* C9: once the handle is destroyed no page is left pinned and the file has
\* been closed.
C9_NoPinLeak ==
    /\ kind = "none" => openCnt = 0 /\ \A p \in PageNos : pinCnt[p] = 0
    /\ ret.op = "close" => ret.status = "OK"

\* a scan ran into FILEEOF, and its handle was destroyed with the cursor
\* left at the end sentinel
C9_Witness ==
    /\ ret.op = "close" /\ ret.unpinFail
    /\ kind = "none" /\ fileExists

\* C10: createHeapFile on an existing name returns FILEEXISTS, leaves the
\* file's open count as it was and changes no page.
C10_CreateExisting ==
    [][(ret'.op = "createHeapFile" /\ fileExists) =>
          /\ ret'.status = "FILEEXISTS"
          /\ openCnt' = openCnt
          /\ UNCHANGED <<nAlloc, diskHdr, diskPages, headerPage, pages>>]_vars

\* the slot a rid names on the pages pgs
SlotOf(pgs, rid) == pgs[rid.pageNo].slot[rid.slotNo]

C12_EmptyFileEOF ==
    [][(/\ ScanStart /\ \A p \in DataPageNos : LiveSlots(pages[p]) = {}
        /\ ret'.op = "scanNext" /\ calls' = calls + 1)
       => (ret'.status = "FILEEOF" /\ curRec' = NULLRID)]_vars

\* C13: in every scan state a second endScan leaves the cursor and the pin
\* counts as the first left them, issues no unPinPage and returns OK; after
\* endScan the cursor is absent and no data page is pinned.
C13_EndScanIdempotent ==
    kind = "scan" =>
        LET c1 == endScanOp(C0)
            c2 == endScanOp([c1 EXCEPT !.b.unpinFail = FALSE])
        IN /\ c2.status = "OK"
           /\ ~c2.b.unpinFail
           /\ c2.b.pin = c1.b.pin /\ c2.b.dirty = c1.b.dirty
           /\ c2.curPage = c1.curPage /\ c2.curPageNo = c1.curPageNo
           /\ c2.curDirtyFlag = c1.curDirtyFlag /\ c2.curRec = c1.curRec
           /\ c1.curPage = NULL /\ DataPins(c1.b.pin) = 0

\* endScan ran on a scan that had reached FILEEOF; the cursor is absent
C13_Witness ==
    /\ kind = "scan" /\ ret.op = "endScan" /\ ret.unpinFail
    /\ curPage = NULL /\ DataPins(pinCnt) = 0

\* the arguments for which startScan is to fail
BadScanParm(q) ==
    \/ q.offset < 0
    \/ q.length < 1
    \/ q.type \notin {"STRING", "INTEGER", "FLOAT"}
    \/ (q.type = "INTEGER" /\ q.length # 4)
    \/ (q.type = "FLOAT" /\ q.length # 4)
    \/ q.op \notin {"LT", "LTE", "EQ", "GTE", "GT", "NE"}

\* C14: with a filter, startScan returns BADSCANPARM exactly for the invalid
\* arguments and OK otherwise; on BADSCANPARM the stored predicate and the
\* cursor are unchanged; with no filter it returns OK whatever the other
\* arguments are and the scan becomes unfiltered.
C14_StartScan ==
    [][\A q \in AllScanParams :
          startScanQ(q) =>
            /\ q.filter = NULL => (ret'.status = "OK" /\ filter' = NULL)
            /\ q.filter # NULL =>
                  ret'.status = (IF BadScanParm(q) THEN "BADSCANPARM" ELSE "OK")
            /\ ret'.status = "BADSCANPARM" => UNCHANGED <<predVars, cursorVars>>]_vars

\* startScan rejected its arguments on a scan that had a predicate stored
C14_Witness ==
    /\ ret.op = "startScan" /\ ret.status = "BADSCANPARM"
    /\ filter # NULL /\ type = "FLOAT"

\* C15: when scanNext returns FILEEOF, curRec is NULLRID and the cursor still
\* is the pinned tail page: curPageNo is a page of the file, never the end
\* sentinel, and its pin has not been released.
C15_SentinelNotRead ==
    (ret.op = "scanNext" /\ ret.status = "FILEEOF") =>
        /\ curRec = NULLRID
        /\ curPageNo \in DataPageNos
        /\ curPage = curPageNo /\ pinCnt[curPageNo] = 1
        /\ pages[curPageNo].nextPage = SENTINEL_END

\* the place of page p in the chain, 0 when it is not on it
ChainPos(p) ==
    IF \E i \in 1..Len(Chain) : Chain[i] = p
    THEN CHOOSE i \in 1..Len(Chain) : Chain[i] = p
    ELSE 0

\* rid a comes before rid b in page order
Before(a, b) ==
    \/ ChainPos(a.pageNo) < ChainPos(b.pageNo)
    \/ (a.pageNo = b.pageNo /\ a.slotNo < b.slotNo)

\* the live record that follows rid r in page order, or FILEEOF
NextLive(r) ==
    LET later == {x \in LiveRids : Before(r, x)}
    IN IF later = {} THEN [status |-> "FILEEOF", rid |-> NULLRID]
       ELSE [status |-> "OK",
             rid |-> CHOOSE x \in later : \A y \in later : x = y \/ Before(x, y)]

\* C16: in an unfiltered scan the scanNext that follows a successful
\* deleteRecord returns the live record after the deleted slot in page order
\* (FILEEOF when there is none); a deleted slot stays empty until an
\* insertRecord returns its rid, so no later scanNext and no new scan returns
\* the deleted rid; every rid scanNext returns is live.
C16_DeleteInScan ==
    /\ [][(/\ kind = "scan" /\ filter = NULL
            /\ ret.op = "deleteRecord" /\ ret.status = "OK"
            /\ ChainPos(curRec.pageNo) > 0
            /\ ret'.op = "scanNext" /\ calls' = calls + 1)
           => [status |-> ret'.status, rid |-> curRec'] = NextLive(curRec)]_vars
    /\ [][\A rid \in Rids :
            (/\ fileExists /\ ret'.op # "destroyHeapFile"
             /\ SlotOf(pages, rid) = EmptySlot
             /\ ~(ret'.op = "insertRecord" /\ ret'.status = "OK" /\ ret'.rid = rid))
            => SlotOf(pages', rid) = EmptySlot]_vars
    /\ []((ret.op = "scanNext" /\ ret.status = "OK" /\ filter = NULL /\ delOK > 0)
            => curRec \in LiveRids)

\* a op f on the integers
IntHolds(a, f, o) ==
    CASE o = "LT" -> a < f
      [] o = "LTE" -> a <= f
      [] o = "EQ" -> a = f
      [] o = "GTE" -> a >= f
      [] o = "GT" -> a > f
      [] o = "NE" -> a # f

\* C17: with an INTEGER filter matchRec returns true exactly when a op f
\* holds on the integers, for every pair of 32-bit values a and f.
C17_IntegerMatch ==
    (ret.op = "matchRec" /\ type = "INTEGER") =>
        ((ret.status = "TRUE") <=> IntHolds(ret.data, filter, op))

\* the sign of the lexicographic comparison of two byte strings of one length
RECURSIVE LexCmp(_, _)
LexCmp(a, b) ==
    IF a = <<>> THEN 0
    ELSE IF Head(a) # Head(b) THEN Head(a) - Head(b)
    ELSE LexCmp(Tail(a), Tail(b))

\* C18: with a STRING filter of length n matchRec compares exactly the n
\* bytes at offset with the n bytes of the filter, as unsigned bytes, zero
\* bytes included.
C18_StringMatch ==
    (ret.op = "matchRec" /\ type = "STRING") =>
        ((ret.status = "TRUE") <=>
            Compare(LexCmp(SubSeq(Bytes(ret.data), offset + 1, offset + length),
                           SubSeq(Bytes(filter), 1, length)), op))

\* a scan as the constructor leaves it, with or without a predicate stored by
\* a first startScan
FreshScan ==
    /\ kind = "scan" /\ CursorPinned
    /\ curPageNo = headerPage.firstPage /\ curRec = NULLRID
    /\ calls = 0 \/ (calls = 1 /\ ret.op = "startScan")

\* C19: from a freshly opened scan repeated scanNext calls return FILEEOF
\* after at most recCnt calls that returned OK.
C19_ScanEnds ==
    FreshScan =>
        Len(ScanAll(C0, NULLRID, MaxPages * PageCap + 1)) <= headerPage.recCnt

\* C20: no call of the layer issues an unPinPage that fails: every unpin names
\* a page on which the handle holds a pin.
C20_NoFailingUnpin == ret.op # "none" => ~ret.unpinFail

====
